---- MODULE Spec2Model ----
(***************************************************************************)
(* Screen layer of the appointment-booking application: LoginScreen,       *)
(* RegisterScreen, HomeScreen, ProfileScreen and UserManagementScreen.     *)
(*                                                                         *)
(* One screen of the five is mounted at a time (screen).  A handler that   *)
(* reaches an await becomes an execution in flight (tasks); the step that  *)
(* serves the awaited call of the storage or auth collaborator also runs   *)
(* the handler's continuation up to its next await.  Executions of a       *)
(* screen that has been left stay in flight (live = FALSE): their          *)
(* continuations still run, only their view-state updates are lost with    *)
(* the unmounted component.                                                *)
(***************************************************************************)
EXTENDS Integers, Sequences, FiniteSets, Bags, TLC

VARIABLES
    screen,        \* the screen of the stack that is or was mounted
    mounted,       \* FALSE while the screen is unmounted
    focused,       \* FALSE while a screen outside this repository covers it
    store,         \* AsyncStorage: key -> stored value
    tasks,         \* bag of handler executions suspended at an await
    loginEmail, loginPassword, loginLoading, loginError,      \* LoginScreen state
    name, email, password, regLoading, regError,              \* RegisterScreen state
    appointments, refreshing,                                 \* HomeScreen state
    users, loading,                                           \* UserManagementScreen state
    last           \* history: the step taken last

loginVars == <<loginEmail, loginPassword, loginLoading, loginError>>
regVars   == <<name, email, password, regLoading, regError>>
homeVars  == <<appointments, refreshing>>
umVars    == <<users, loading>>
viewVars  == <<loginVars, regVars, homeVars, umVars>>
vars      == <<screen, mounted, focused, store, tasks, viewVars, last>>

\* Executions in flight at once.
MaxTasks == 2

(***************************************************************************)
(* Constants of the source.                                                *)
(***************************************************************************)
Screens == {"Login", "Register", "Home", "Profile", "UserManagement"}

AppointmentsKey == "appointments"
UsersKey        == "@MedicalApp:users"
Keys            == {AppointmentsKey, UsersKey}

MsgFillAll      == "Por favor, preencha todos os campos"
MsgRegisterFail == "Erro ao criar conta. Tente novamente."
MsgLoginFail    == "Email ou senha inválidos"
NoMsg           == ""

\* The id of the logged-in user (useAuth().user.id).
SelfId == 1

(***************************************************************************)
(* Stored JSON.  A stored string is a sequence of tokens: "[", "]", ","    *)
(* and the JSON text of one object.                                        *)
(***************************************************************************)
UserTokens        == {"u1", "u2", "u3"}
AppointmentTokens == {"a1", "a2"}
ObjTokens         == UserTokens \cup AppointmentTokens

DecodeObject(tok) ==
    CASE tok = "u1" -> [id |-> 1, role |-> "admin"]
      [] tok = "u2" -> [id |-> 2, role |-> "doctor"]
      [] tok = "u3" -> [id |-> 3, role |-> "patient"]
      [] tok = "a1" -> [id |-> 1, doctorId |-> 1, status |-> "pending"]
      [] tok = "a2" -> [id |-> 2, doctorId |-> 9, status |-> "confirmed"]

EncodeObject(o) == CHOOSE tok \in ObjTokens : DecodeObject(tok) = o

RECURSIVE StringifyItems(_)
StringifyItems(s) ==
    IF Len(s) = 0 THEN <<>>
    ELSE IF Len(s) = 1 THEN <<EncodeObject(s[1])>>
    ELSE <<EncodeObject(s[1]), ",">> \o StringifyItems(Tail(s))

\* JSON.stringify of an array of objects.
JSONstringify(s) == <<"[">> \o StringifyItems(s) \o <<"]">>

\* The items between the brackets: obj ("," obj)*
RECURSIVE ParseItems(_)
ParseItems(t) ==
    IF Len(t) = 0 \/ t[1] \notin ObjTokens THEN [ok |-> FALSE, val |-> <<>>]
    ELSE IF Len(t) = 1 THEN [ok |-> TRUE, val |-> <<DecodeObject(t[1])>>]
    ELSE IF t[2] # "," THEN [ok |-> FALSE, val |-> <<>>]
    ELSE LET r == ParseItems(SubSeq(t, 3, Len(t)))
         IN  [ok |-> r.ok, val |-> IF r.ok THEN <<DecodeObject(t[1])>> \o r.val ELSE <<>>]

\* JSON.parse of a stored string: ok = FALSE when it throws a SyntaxError.
JSONparse(t) ==
    IF Len(t) < 2 \/ t[1] # "[" \/ t[Len(t)] # "]" THEN [ok |-> FALSE, val |-> <<>>]
    ELSE IF Len(t) = 2 THEN [ok |-> TRUE, val |-> <<>>]
    ELSE ParseItems(SubSeq(t, 2, Len(t) - 1))

\* What getItem resolves with: null, or the stored string.
Null      == [present |-> FALSE, text |-> <<>>]
Str(t)    == [present |-> TRUE, text |-> t]
\* JavaScript truthiness of string | null: null and "" are falsy.
Truthy(v) == v.present /\ v.text # <<>>

RECURSIVE SubSeqs(_)
\* The sub-sequences of s (elements dropped, order kept).
SubSeqs(s) ==
    IF Len(s) = 0 THEN {<<>>}
    ELSE LET rest == SubSeqs(Tail(s))
         IN  rest \cup {<<s[1]>> \o r : r \in rest}

SeedUsers        == <<"u1", "u2", "u3">>
SeedAppointments == <<"a1", "a2">>
Objects(toks)    == [i \in 1..Len(toks) |-> DecodeObject(toks[i])]

\* The values the store may hold under a key: absent, the empty string, a
\* truncated (malformed) text, and the JSON of the collections.
ValuesOf(seed) ==
    {Null, Str(<<>>), Str(<<"[", seed[1]>>)}
        \cup {Str(JSONstringify(Objects(s))) : s \in SubSeqs(seed)}

StoredValues(key) ==
    IF key = UsersKey THEN ValuesOf(SeedUsers) ELSE ValuesOf(SeedAppointments)

(***************************************************************************)
(* Executions in flight.                                                   *)
(***************************************************************************)
\* h: the function suspended;  pc: the call it awaits;  origin: the handler
\* or focus effect that started it;  calls: the asynchronous collaborator
\* calls the origin has made so far;  arg: the id given to handleDeleteUser;
\* val: the string given to setItem;  live: its component is still mounted.
Task(h, pc, origin, calls, arg, val, live) ==
    [h |-> h, pc |-> pc, origin |-> origin, calls |-> calls, arg |-> arg,
     val |-> val, live |-> live]

InFlight     == BagToSet(tasks)
Pending      == BagCardinality(tasks)
Spawn(t)     == tasks (+) SetToBag({t})
Finish(t)    == tasks (-) SetToBag({t})
Replace(t,u) == (tasks (-) SetToBag({t})) (+) SetToBag({u})

NoTask == Task("none", "none", "none", 0, 0, <<>>, FALSE)

\* op: the function that ran;  kind: the path it took;  t: the execution
\* that was resumed (NoTask for a step the user or the router starts).
Step(op, kind, t) == [op |-> op, kind |-> kind, t |-> t]

\* The outcomes of an awaited collaborator call: TRUE resolved, FALSE rejected.
Outcomes == BOOLEAN

(***************************************************************************)
(* The handlers' computations.                                             *)
(***************************************************************************)
\* A getItem that resolved with v, or rejected.
Resolved(v) == [ok |-> TRUE, v |-> v]
Rejected    == [ok |-> FALSE, v |-> Null]

\* The path a "getItem, if (stored) JSON.parse(stored)" body takes.
ReadKind(res) ==
    IF ~res.ok THEN "rejected"
    ELSE IF ~Truthy(res.v) THEN "absent"
    ELSE IF ~JSONparse(res.v.text).ok THEN "malformed"
    ELSE "parsed"

\* Faulty variant: an empty stored array is treated like a missing one.
LoadAppointmentsState_SkipEmpty(res, current) ==
    IF ReadKind(res) = "parsed" /\ Len(JSONparse(res.v.text).val) > 0
    THEN JSONparse(res.v.text).val ELSE current

\* Faulty variant: a failed load clears the list.
LoadAppointmentsState_Clear(res, current) ==
    IF ReadKind(res) = "parsed" THEN JSONparse(res.v.text).val ELSE <<>>

\* HomeScreen.loadAppointments after its getItem: the appointments state.
\* Nothing stored, a SyntaxError or a rejected getItem leave it as it is.
LoadAppointmentsState(res, current) ==
    IF ReadKind(res) = "parsed" THEN JSONparse(res.v.text).val ELSE current

\* Faulty variant: the logged-in user is not filtered out.
WithoutSelf_Unfiltered(allUsers) == allUsers

\* allUsers.filter(u => u.id !== user?.id)
WithoutSelf(allUsers) == SelectSeq(allUsers, LAMBDA u : u.id # SelfId)

\* UserManagementScreen.loadUsers after its getItem: the users state.
LoadUsersState(res, current) ==
    IF ReadKind(res) = "parsed" THEN WithoutSelf(JSONparse(res.v.text).val) ELSE current

\* Faulty variant: the comparison is inverted (u.id === userId).
WithoutUser_Inverted(allUsers, userId) == SelectSeq(allUsers, LAMBDA u : u.id = userId)

\* allUsers.filter(u => u.id !== userId)
WithoutUser(allUsers, userId) == SelectSeq(allUsers, LAMBDA u : u.id # userId)

\* handleDeleteUser after its getItem: the string it gives to setItem.
UpdatedUsersText(res, userId) ==
    JSONstringify(WithoutUser(JSONparse(res.v.text).val, userId))

\* Faulty variant: the write goes to the other key.
DeleteWriteKey_Other == AppointmentsKey

\* The key handleDeleteUser writes.
DeleteWriteKey == UsersKey

\* FlatList renders ListEmptyComponent when its data is empty.
EmptyTextShown(data) == Len(data) = 0

\* UserManagementScreen: what is rendered under the title, 'Carregando
\* usuários...', 'Nenhum usuário cadastrado' or one card for each user.
UsersRender(isLoading, list) ==
    IF isLoading THEN "LoadingText"
    ELSE IF Len(list) = 0 THEN "EmptyText"
    ELSE "UserCards"

\* Faulty variant: the password is not checked.
AnyFieldEmpty_NoPassword(n, e, p) == n = "" \/ e = ""

\* if (!name || !email || !password)
AnyFieldEmpty(n, e, p) == n = "" \/ e = "" \/ p = ""

\* What the form fields may hold.
FieldValues == {"", "x"}

Ids(list) == {list[i].id : i \in 1..Len(list)}

(***************************************************************************)
(* Mounting and focus.  The router is outside these files: a behaviour     *)
(* follows one of its stacks, the login stack (Login and Register), Home,  *)
(* Profile or UserManagement, whose screen is mounted, left and mounted    *)
(* again.                                                                  *)
(***************************************************************************)
Dead(t) == [t EXCEPT !.live = FALSE]
Live(t) == [t EXCEPT !.live = TRUE]

\* Every execution in flight loses its component.
Orphaned(B) ==
    [d \in {Dead(t) : t \in BagToSet(B)} |-> CopiesIn(d, B) + CopiesIn(Live(d), B)]

\* useFocusEffect: the load a screen starts when it gains focus.
FocusEffect(s) ==
    IF s = "Home"
        THEN SetToBag({Task("loadAppointments", "getItem", "focus", 1, 0, <<>>, TRUE)})
    ELSE IF s = "UserManagement"
        THEN SetToBag({Task("loadUsers", "getItem", "focus", 1, 0, <<>>, TRUE)})
    ELSE EmptyBag

\* useState initial values of the four stateful screens.
FreshView ==
    /\ loginEmail' = "" /\ loginPassword' = "" /\ loginLoading' = FALSE /\ loginError' = NoMsg
    /\ name' = "" /\ email' = "" /\ password' = "" /\ regLoading' = FALSE /\ regError' = NoMsg
    /\ appointments' = <<>> /\ refreshing' = FALSE
    /\ users' = <<>> /\ loading' = TRUE

\* The screen that shows what is stored under a key.
Owner(k) == IF k = UsersKey THEN "UserManagement" ELSE "Home"

\* s is mounted and has the focus: its buttons can be pressed.
Active(s) == screen = s /\ mounted /\ focused

\* The navigator unmounts the mounted screen and mounts s.
Mount(s) ==
    /\ BagCardinality(Orphaned(tasks) (+) FocusEffect(s)) <= MaxTasks
    /\ screen' = s
    /\ mounted' = TRUE
    /\ focused' = TRUE
    /\ tasks' = Orphaned(tasks) (+) FocusEffect(s)
    /\ FreshView

Init ==
    /\ screen \in {"Login", "Home", "Profile", "UserManagement"}
    /\ mounted = TRUE
    /\ focused = TRUE
    /\ store \in [Keys -> UNION {StoredValues(k) : k \in Keys}]
    /\ \A k \in Keys : IF Owner(k) = screen THEN store[k] \in StoredValues(k)
                                           ELSE store[k] = Null
    /\ tasks = FocusEffect(screen)
    /\ loginEmail = "" /\ loginPassword = "" /\ loginLoading = FALSE /\ loginError = NoMsg
    /\ name = "" /\ email = "" /\ password = "" /\ regLoading = FALSE /\ regError = NoMsg
    /\ appointments = <<>> /\ refreshing = FALSE
    /\ users = <<>> /\ loading = TRUE
    /\ last = Step("mount", screen, NoTask)

(***************************************************************************)
(* Navigation.                                                             *)
(***************************************************************************)
\* LoginScreen: "Cadastrar Novo Paciente".
LoginGoToRegister ==
    /\ Active("Login")
    /\ Mount("Register")
    /\ last' = Step("navigate", "Register", NoTask)
    /\ UNCHANGED store

\* RegisterScreen: "Voltar para Login".
RegisterBackToLogin ==
    /\ Active("Register")
    /\ Mount("Login")
    /\ last' = Step("navigate", "Login", NoTask)
    /\ UNCHANGED store

\* ProfileScreen, UserManagementScreen: "Voltar"; HomeScreen is left the
\* same way by the router.  The screen is unmounted.
GoBack ==
    /\ screen \in {"Home", "Profile", "UserManagement"}
    /\ mounted /\ focused
    /\ mounted' = FALSE
    /\ tasks' = Orphaned(tasks)
    /\ FreshView
    /\ last' = Step("goBack", screen, NoTask)
    /\ UNCHANGED <<screen, focused, store>>

\* ProfileScreen: "Sair".  signOut() is synchronous; the router then
\* unmounts the screen.
ProfileSignOut ==
    /\ Active("Profile")
    /\ mounted' = FALSE
    /\ last' = Step("signOut", screen, NoTask)
    /\ UNCHANGED <<screen, focused, store, tasks, viewVars>>

\* The router mounts the screen again.
Open ==
    /\ ~mounted
    /\ Mount(screen)
    /\ last' = Step("mount", screen, NoTask)
    /\ UNCHANGED store

\* HomeScreen "Agendar Nova Consulta", ProfileScreen "Editar Perfil": a screen
\* outside this repository covers the mounted one, which stays mounted.
Cover ==
    /\ screen \in {"Home", "Profile"}
    /\ mounted /\ focused
    /\ focused' = FALSE
    /\ last' = Step("navigate", "outside", NoTask)
    /\ UNCHANGED <<screen, mounted, store, tasks, viewVars>>

\* The covering screen is closed: the mounted screen regains focus.
Uncover ==
    /\ mounted /\ ~focused
    /\ BagCardinality(tasks (+) FocusEffect(screen)) <= MaxTasks
    /\ focused' = TRUE
    /\ tasks' = tasks (+) FocusEffect(screen)
    /\ last' = Step("focus", screen, NoTask)
    /\ UNCHANGED <<screen, mounted, store, viewVars>>

\* Code outside these screens (the create-appointment screen, the
\* registration flow) writes or removes a key while the screen that shows
\* it is covered or unmounted.
ExternalWrite(k, v) ==
    /\ v \in StoredValues(k)
    /\ v # store[k]
    /\ screen = Owner(k)
    /\ ~(mounted /\ focused)
    /\ store' = [store EXCEPT ![k] = v]
    /\ last' = Step("external", k, NoTask)
    /\ UNCHANGED <<screen, mounted, focused, tasks, viewVars>>

(***************************************************************************)
(* HomeScreen.                                                             *)
(***************************************************************************)
\* onRefresh up to its await: setRefreshing(true); await loadAppointments()
OnRefresh ==
    /\ Active("Home")
    /\ ~refreshing
    /\ Pending < MaxTasks
    /\ refreshing' = TRUE
    /\ tasks' = Spawn(Task("loadAppointments", "getItem", "onRefresh", 1, 0, <<>>, TRUE))
    /\ last' = Step("onRefresh", "started", NoTask)
    /\ UNCHANGED <<screen, mounted, focused, store, loginVars, regVars, appointments, umVars>>

\* Faulty variant: a rejected getItem is tried again.
LoadAppointmentsDone_Retry(t, ok) ==
    /\ t \in InFlight
    /\ t.h = "loadAppointments" /\ t.pc = "getItem"
    /\ LET res == IF ok THEN Resolved(store[AppointmentsKey]) ELSE Rejected
       IN  /\ appointments' =
                IF t.live THEN LoadAppointmentsState(res, appointments) ELSE appointments
           /\ last' = Step("loadAppointments", ReadKind(res), t)
    /\ refreshing' = IF ok /\ t.live /\ t.origin = "onRefresh" THEN FALSE ELSE refreshing
    /\ tasks' = IF ok \/ t.calls > 1 THEN Finish(t)
                ELSE Replace(t, [t EXCEPT !.calls = t.calls + 1])
    /\ UNCHANGED <<screen, mounted, focused, store, loginVars, regVars, umVars>>

\* getItem('appointments') settles: the rest of loadAppointments runs and,
\* for a refresh, the rest of onRefresh: setRefreshing(false).
LoadAppointmentsDone(t, ok) ==
    /\ t \in InFlight
    /\ t.h = "loadAppointments" /\ t.pc = "getItem"
    /\ LET res == IF ok THEN Resolved(store[AppointmentsKey]) ELSE Rejected
       IN  /\ appointments' =
                IF t.live THEN LoadAppointmentsState(res, appointments) ELSE appointments
           /\ last' = Step("loadAppointments", ReadKind(res), t)
    /\ refreshing' = IF t.live /\ t.origin = "onRefresh" THEN FALSE ELSE refreshing
    /\ tasks' = Finish(t)
    /\ UNCHANGED <<screen, mounted, focused, store, loginVars, regVars, umVars>>

(***************************************************************************)
(* UserManagementScreen.                                                   *)
(***************************************************************************)
\* Faulty variant: setLoading(false) at the end of the try, not in a finally.
LoadUsersDone_NoFinally(t, ok) ==
    /\ t \in InFlight
    /\ t.h = "loadUsers" /\ t.pc = "getItem"
    /\ LET res == IF ok THEN Resolved(store[UsersKey]) ELSE Rejected
       IN  /\ users' = IF t.live THEN LoadUsersState(res, users) ELSE users
           /\ last' = Step("loadUsers", ReadKind(res), t)
           /\ loading' = IF t.live /\ ReadKind(res) \in {"parsed", "absent"}
                          THEN FALSE ELSE loading
    /\ tasks' = Finish(t)
    /\ UNCHANGED <<screen, mounted, focused, store, loginVars, regVars, homeVars>>

\* getItem('@MedicalApp:users') settles: the rest of loadUsers runs.
LoadUsersDone(t, ok) ==
    /\ t \in InFlight
    /\ t.h = "loadUsers" /\ t.pc = "getItem"
    /\ LET res == IF ok THEN Resolved(store[UsersKey]) ELSE Rejected
       IN  /\ users' = IF t.live THEN LoadUsersState(res, users) ELSE users
           /\ last' = Step("loadUsers", ReadKind(res), t)
    /\ loading' = IF t.live THEN FALSE ELSE loading
    /\ tasks' = Finish(t)
    /\ UNCHANGED <<screen, mounted, focused, store, loginVars, regVars, homeVars>>

\* "Excluir" on a card of the rendered list: handleDeleteUser(user.id) up to
\* its first await.
HandleDeleteUser(userId) ==
    /\ Active("UserManagement")
    /\ ~loading
    /\ userId \in Ids(users)
    /\ Pending < MaxTasks
    /\ tasks' = Spawn(Task("handleDeleteUser", "getItem", "handleDeleteUser", 1, userId, <<>>, TRUE))
    /\ last' = Step("handleDeleteUser", "started", NoTask)
    /\ UNCHANGED <<screen, mounted, focused, store, viewVars>>

\* Faulty variant: with nothing stored it writes an empty array.
DeleteGetDone_WritesWhenAbsent(t, ok) ==
    /\ t \in InFlight
    /\ t.h = "handleDeleteUser" /\ t.pc = "getItem"
    /\ LET res == IF ok THEN Resolved(store[UsersKey]) ELSE Rejected
       IN  /\ tasks' =
                IF ReadKind(res) = "parsed"
                THEN Replace(t, [t EXCEPT !.pc = "setItem", !.calls = t.calls + 1,
                                          !.val = UpdatedUsersText(res, t.arg)])
                ELSE IF ReadKind(res) = "absent"
                THEN Replace(t, [t EXCEPT !.pc = "setItem", !.calls = t.calls + 1,
                                          !.val = JSONstringify(<<>>)])
                ELSE Finish(t)
           /\ last' = Step("handleDeleteUser.getItem", ReadKind(res), t)
    /\ UNCHANGED <<screen, mounted, focused, store, viewVars>>

\* The getItem of handleDeleteUser settles: on a stored array it filters and
\* calls setItem; otherwise it ends (nothing stored, or the catch).
DeleteGetDone(t, ok) ==
    /\ t \in InFlight
    /\ t.h = "handleDeleteUser" /\ t.pc = "getItem"
    /\ LET res == IF ok THEN Resolved(store[UsersKey]) ELSE Rejected
       IN  /\ tasks' =
                IF ReadKind(res) = "parsed"
                THEN Replace(t, [t EXCEPT !.pc = "setItem", !.calls = t.calls + 1,
                                          !.val = UpdatedUsersText(res, t.arg)])
                ELSE Finish(t)
           /\ last' = Step("handleDeleteUser.getItem", ReadKind(res), t)
    /\ UNCHANGED <<screen, mounted, focused, store, viewVars>>

\* Faulty variant: the list is not loaded again after the write.
DeleteSetDone_NoReload(t, ok) ==
    /\ t \in InFlight
    /\ t.h = "handleDeleteUser" /\ t.pc = "setItem"
    /\ store' = IF ok THEN [store EXCEPT ![DeleteWriteKey] = Str(t.val)] ELSE store
    /\ tasks' = Finish(t)
    /\ last' = Step("handleDeleteUser.setItem", IF ok THEN "written" ELSE "rejected", t)
    /\ UNCHANGED <<screen, mounted, focused, viewVars>>

\* The setItem of handleDeleteUser settles: written, it calls loadUsers()
\* (not awaited), which runs up to its getItem; rejected, the catch ends it.
DeleteSetDone(t, ok) ==
    /\ t \in InFlight
    /\ t.h = "handleDeleteUser" /\ t.pc = "setItem"
    /\ store' = IF ok THEN [store EXCEPT ![DeleteWriteKey] = Str(t.val)] ELSE store
    /\ tasks' =
         IF ok
         THEN Replace(t, [t EXCEPT !.h = "loadUsers", !.pc = "getItem",
                                   !.calls = t.calls + 1, !.val = <<>>])
         ELSE Finish(t)
    /\ last' = Step("handleDeleteUser.setItem", IF ok THEN "written" ELSE "rejected", t)
    /\ UNCHANGED <<screen, mounted, focused, viewVars>>

(***************************************************************************)
(* LoginScreen.                                                            *)
(***************************************************************************)
SetLoginEmail(v) ==
    /\ Active("Login") /\ v \in FieldValues /\ v # loginEmail
    /\ loginEmail' = v
    /\ last' = Step("setEmail", "Login", NoTask)
    /\ UNCHANGED <<screen, mounted, focused, store, tasks, loginPassword, loginLoading, loginError,
                   regVars, homeVars, umVars>>

SetLoginPassword(v) ==
    /\ Active("Login") /\ v \in FieldValues /\ v # loginPassword
    /\ loginPassword' = v
    /\ last' = Step("setPassword", "Login", NoTask)
    /\ UNCHANGED <<screen, mounted, focused, store, tasks, loginEmail, loginLoading, loginError,
                   regVars, homeVars, umVars>>

\* Faulty variant: empty fields are rejected before signIn, as in
\* handleRegister.
HandleLogin_Validates ==
    /\ Active("Login")
    /\ ~loginLoading
    /\ IF loginEmail = "" \/ loginPassword = ""
       THEN /\ loginError' = MsgLoginFail
            /\ loginLoading' = FALSE
            /\ tasks' = tasks
            /\ last' = Step("handleLogin", "validation", NoTask)
       ELSE /\ Pending < MaxTasks
            /\ loginLoading' = TRUE
            /\ loginError' = NoMsg
            /\ tasks' = Spawn(Task("handleLogin", "signIn", "handleLogin", 1, 0,
                                   <<loginEmail, loginPassword>>, TRUE))
            /\ last' = Step("handleLogin", "started", NoTask)
    /\ UNCHANGED <<screen, mounted, focused, store, loginEmail, loginPassword, regVars, homeVars, umVars>>

\* "Entrar" (the button takes no press while loading): handleLogin up to
\* await signIn({ email, password }).
HandleLogin ==
    /\ Active("Login")
    /\ ~loginLoading
    /\ Pending < MaxTasks
    /\ loginLoading' = TRUE
    /\ loginError' = NoMsg
    /\ tasks' = Spawn(Task("handleLogin", "signIn", "handleLogin", 1, 0,
                           <<loginEmail, loginPassword>>, TRUE))
    /\ last' = Step("handleLogin", "started", NoTask)
    /\ UNCHANGED <<screen, mounted, focused, store, loginEmail, loginPassword, regVars, homeVars, umVars>>

\* Faulty variant: setLoading(false) at the end of the try, not in a finally.
LoginDone_NoFinally(t, ok) ==
    /\ t \in InFlight
    /\ t.h = "handleLogin" /\ t.pc = "signIn"
    /\ loginError' = IF t.live /\ ~ok THEN MsgLoginFail ELSE loginError
    /\ loginLoading' = IF t.live /\ ok THEN FALSE ELSE loginLoading
    /\ tasks' = Finish(t)
    /\ last' = Step("handleLogin.signIn", IF ok THEN "resolved" ELSE "rejected", t)
    /\ UNCHANGED <<screen, mounted, focused, store, loginEmail, loginPassword, regVars, homeVars, umVars>>

\* signIn settles: the catch and the finally of handleLogin.
LoginDone(t, ok) ==
    /\ t \in InFlight
    /\ t.h = "handleLogin" /\ t.pc = "signIn"
    /\ loginError' = IF t.live /\ ~ok THEN MsgLoginFail ELSE loginError
    /\ loginLoading' = IF t.live THEN FALSE ELSE loginLoading
    /\ tasks' = Finish(t)
    /\ last' = Step("handleLogin.signIn", IF ok THEN "resolved" ELSE "rejected", t)
    /\ UNCHANGED <<screen, mounted, focused, store, loginEmail, loginPassword, regVars, homeVars, umVars>>

(***************************************************************************)
(* RegisterScreen.                                                         *)
(***************************************************************************)
SetName(v) ==
    /\ Active("Register") /\ v \in FieldValues /\ v # name
    /\ name' = v
    /\ last' = Step("setName", "Register", NoTask)
    /\ UNCHANGED <<screen, mounted, focused, store, tasks, loginVars, email, password, regLoading,
                   regError, homeVars, umVars>>

SetEmail(v) ==
    /\ Active("Register") /\ v \in FieldValues /\ v # email
    /\ email' = v
    /\ last' = Step("setEmail", "Register", NoTask)
    /\ UNCHANGED <<screen, mounted, focused, store, tasks, loginVars, name, password, regLoading,
                   regError, homeVars, umVars>>

SetPassword(v) ==
    /\ Active("Register") /\ v \in FieldValues /\ v # password
    /\ password' = v
    /\ last' = Step("setPassword", "Register", NoTask)
    /\ UNCHANGED <<screen, mounted, focused, store, tasks, loginVars, name, email, regLoading,
                   regError, homeVars, umVars>>

\* Faulty variant: the validation shows the message of a failed registration.
HandleRegister_OneMessage ==
    /\ Active("Register")
    /\ ~regLoading
    /\ IF AnyFieldEmpty(name, email, password)
       THEN /\ regError' = MsgRegisterFail
            /\ regLoading' = FALSE
            /\ tasks' = tasks
            /\ last' = Step("handleRegister", "validation", NoTask)
       ELSE /\ Pending < MaxTasks
            /\ regError' = NoMsg
            /\ regLoading' = TRUE
            /\ tasks' = Spawn(Task("handleRegister", "register", "handleRegister", 1, 0,
                                   <<name, email, password>>, TRUE))
            /\ last' = Step("handleRegister", "started", NoTask)
    /\ UNCHANGED <<screen, mounted, focused, store, loginVars, name, email, password, homeVars, umVars>>

\* "Cadastrar" (the button takes no press while loading): handleRegister up
\* to await register(...), or through its validation return and finally.
HandleRegister ==
    /\ Active("Register")
    /\ ~regLoading
    /\ IF AnyFieldEmpty(name, email, password)
       THEN /\ regError' = MsgFillAll
            /\ regLoading' = FALSE
            /\ tasks' = tasks
            /\ last' = Step("handleRegister", "validation", NoTask)
       ELSE /\ Pending < MaxTasks
            /\ regError' = NoMsg
            /\ regLoading' = TRUE
            /\ tasks' = Spawn(Task("handleRegister", "register", "handleRegister", 1, 0,
                                   <<name, email, password>>, TRUE))
            /\ last' = Step("handleRegister", "started", NoTask)
    /\ UNCHANGED <<screen, mounted, focused, store, loginVars, name, email, password, homeVars, umVars>>

\* Faulty variant: a handler whose screen was left does not navigate.
RegisterResolved_Cancelled(t) ==
    /\ t \in InFlight
    /\ t.h = "handleRegister" /\ t.pc = "register"
    /\ IF screen = "Login" \/ ~t.live
       THEN /\ tasks' = Finish(t)
            /\ last' = Step("handleRegister.register", "resolved", t)
            /\ UNCHANGED <<screen, mounted, focused, viewVars>>
       ELSE /\ screen' = "Login"
            /\ mounted' = TRUE
            /\ focused' = TRUE
            /\ tasks' = Orphaned(Finish(t))
            /\ last' = Step("handleRegister.register", "navigated", t)
            /\ FreshView
    /\ UNCHANGED store

\* register resolves: navigation.navigate('Login'), then the finally.  The
\* navigator leaves the mounted screen for Login unless Login is mounted.
RegisterResolved(t) ==
    /\ t \in InFlight
    /\ t.h = "handleRegister" /\ t.pc = "register"
    /\ IF screen = "Login"
       THEN /\ tasks' = Finish(t)
            /\ last' = Step("handleRegister.register", "resolved", t)
            /\ UNCHANGED <<screen, mounted, focused, viewVars>>
       ELSE /\ screen' = "Login"
            /\ mounted' = TRUE
            /\ focused' = TRUE
            /\ tasks' = Orphaned(Finish(t))
            /\ last' = Step("handleRegister.register", "navigated", t)
            /\ FreshView
    /\ UNCHANGED store

\* Faulty variant: the catch also navigates to Login.
RegisterRejected_Navigates(t) ==
    /\ t \in InFlight
    /\ t.h = "handleRegister" /\ t.pc = "register"
    /\ screen' = "Login"
    /\ mounted' = TRUE
    /\ focused' = TRUE
    /\ tasks' = Orphaned(Finish(t))
    /\ last' = Step("handleRegister.register", "rejected", t)
    /\ FreshView
    /\ UNCHANGED store

\* register rejects: the catch and the finally of handleRegister.
RegisterRejected(t) ==
    /\ t \in InFlight
    /\ t.h = "handleRegister" /\ t.pc = "register"
    /\ regError' = IF t.live THEN MsgRegisterFail ELSE regError
    /\ regLoading' = IF t.live THEN FALSE ELSE regLoading
    /\ tasks' = Finish(t)
    /\ last' = Step("handleRegister.register", "rejected", t)
    /\ UNCHANGED <<screen, mounted, focused, store, loginVars, name, email, password, homeVars, umVars>>

(***************************************************************************)
(* The specification.                                                      *)
(***************************************************************************)
Next ==
    \/ LoginGoToRegister
    \/ RegisterBackToLogin
    \/ GoBack
    \/ ProfileSignOut
    \/ Open
    \/ Cover
    \/ Uncover
    \/ \E k \in Keys : \E v \in StoredValues(k) : ExternalWrite(k, v)
    \/ OnRefresh
    \/ \E t \in InFlight, ok \in Outcomes : LoadAppointmentsDone(t, ok)
    \/ \E t \in InFlight, ok \in Outcomes : LoadUsersDone(t, ok)
    \/ \E id \in Ids(users) : HandleDeleteUser(id)
    \/ \E t \in InFlight, ok \in Outcomes : DeleteGetDone(t, ok)
    \/ \E t \in InFlight, ok \in Outcomes : DeleteSetDone(t, ok)
    \/ \E v \in FieldValues : SetLoginEmail(v)
    \/ \E v \in FieldValues : SetLoginPassword(v)
    \/ HandleLogin
    \/ \E t \in InFlight, ok \in Outcomes : LoginDone(t, ok)
    \/ \E v \in FieldValues : SetName(v)
    \/ \E v \in FieldValues : SetEmail(v)
    \/ \E v \in FieldValues : SetPassword(v)
    \/ HandleRegister
    \/ \E t \in InFlight : RegisterResolved(t)
    \/ \E t \in InFlight : RegisterRejected(t)

Spec == Init /\ [][Next]_vars

\* The awaits of the handlers that switch a busy indicator on, for a
\* component that is still mounted.
LoginAwaits ==
    {Task("handleLogin", "signIn", "handleLogin", 1, 0, <<e, p>>, TRUE) :
        e \in FieldValues, p \in FieldValues}
RegisterAwaits ==
    {Task("handleRegister", "register", "handleRegister", 1, 0, <<n, e, p>>, TRUE) :
        n \in FieldValues, e \in FieldValues, p \in FieldValues}
RefreshAwait == Task("loadAppointments", "getItem", "onRefresh", 1, 0, <<>>, TRUE)

\* The promise each of them awaits settles.
PromisesSettle ==
    /\ \A t \in LoginAwaits : WF_vars(\E ok \in Outcomes : LoginDone(t, ok))
    /\ \A t \in RegisterAwaits : WF_vars(RegisterResolved(t) \/ RegisterRejected(t))
    /\ WF_vars(\E ok \in Outcomes : LoadAppointmentsDone(RefreshAwait, ok))

FairSpec == Spec /\ PromisesSettle

(***************************************************************************)
(* Properties.                                                             *)
(***************************************************************************)
\* The elements of S whose id is not x, in the order they have in S, stated
\* by positions: the k-th element kept is the k-th position of S that holds
\* another id.
KeptPositions(S, x) == {i \in 1..Len(S) : S[i].id # x}
IsRemainder(W, S, x) ==
    /\ Len(W) = Cardinality(KeptPositions(S, x))
    /\ \A k \in 1..Len(W) :
         \E i \in KeptPositions(S, x) :
            /\ Cardinality({j \in KeptPositions(S, x) : j <= i}) = k
            /\ W[k] = S[i]

\* C1: a submission of the registration form with an empty name, email or
\* password starts no call of register, does not navigate, and ends with
\* the validation message displayed.
C1_EmptyFieldNeverRegisters ==
    [][(/\ last'.op = "handleRegister"
        /\ (name = "" \/ email = "" \/ password = ""))
       => /\ tasks' = tasks
          /\ screen' = screen /\ mounted' = mounted /\ focused' = focused
          /\ regError' = MsgFillAll]_vars

C1_Witness ==
    /\ last.op = "handleRegister" /\ last.kind = "validation"
    /\ name # "" /\ email # "" /\ password = ""
    /\ regError = MsgFillAll
    /\ Pending = 0

\* C2: a handleDeleteUser(X) that read the stored collection S and whose
\* write succeeded leaves stored a collection without an element of id X,
\* made of the elements of S of another id in their order in S.  The first
\* conjunct is the string it hands to setItem, the second the store after
\* the write.
C2_DeleteKeepsTheOthersInOrder ==
    /\ (last.op = "handleDeleteUser.getItem" /\ last.kind = "parsed")
         => \E t \in InFlight :
               /\ t.h = "handleDeleteUser" /\ t.pc = "setItem" /\ t.arg = last.t.arg
               /\ JSONparse(t.val).ok
               /\ last.t.arg \notin Ids(JSONparse(t.val).val)
               /\ IsRemainder(JSONparse(t.val).val,
                              JSONparse(store[UsersKey].text).val, last.t.arg)
    /\ (last.op = "handleDeleteUser.setItem" /\ last.kind = "written")
         => /\ store[UsersKey] = Str(last.t.val)
            /\ last.t.arg \notin Ids(JSONparse(store[UsersKey].text).val)

C2_Witness ==
    /\ last.op = "handleDeleteUser.setItem" /\ last.kind = "written"
    /\ last.t.arg = 2
    /\ JSONparse(store[UsersKey].text).val = <<DecodeObject("u1"), DecodeObject("u3")>>

\* C3: after a load of the Home screen that obtained a collection from the
\* 'appointments' key, the empty-state message is rendered if and only if
\* that collection has length zero.
C3_EmptyTextIffLoadedEmpty ==
    (last.op = "loadAppointments" /\ last.kind = "parsed" /\ last.t.live)
        => (EmptyTextShown(appointments)
              <=> Len(JSONparse(store[AppointmentsKey].text).val) = 0)

C3_Witness ==
    /\ last.op = "loadAppointments" /\ last.kind = "parsed" /\ last.t.live
    /\ last.t.origin = "onRefresh"
    /\ store[AppointmentsKey] = Str(<<"[", "]">>)
    /\ EmptyTextShown(appointments)

\* C4 as stated: a load that reads a value that is not valid JSON leaves
\* the displayed collection empty, whatever was displayed before it.
C4_MalformedLeavesListEmpty ==
    (last.kind = "malformed" /\ last.t.live)
        => /\ last.op = "loadAppointments" => appointments = <<>>
           /\ last.op = "loadUsers" => users = <<>>

\* C4 as amended: a load that reads a value that is not valid JSON does not
\* throw to its caller (an onRefresh still resets refreshing, loadUsers
\* still resets loading) and leaves the displayed collection as it was
\* before the load.
C4_MalformedLeavesListUnchanged ==
    [][(last'.kind = "malformed" /\ last'.op \in {"loadAppointments", "loadUsers"})
       => /\ appointments' = appointments
          /\ users' = users
          /\ (last'.t.live /\ last'.t.origin = "onRefresh") => ~refreshing'
          /\ (last'.t.live /\ last'.op = "loadUsers") => ~loading']_vars

C4_Witness ==
    /\ last.op = "loadAppointments" /\ last.kind = "malformed" /\ last.t.live
    /\ Len(appointments) > 0

\* The handlers a press or a pull starts.
UserHandlers == {"handleLogin", "handleRegister", "onRefresh", "handleDeleteUser"}

\* C5 as stated: an execution of a user-triggered handler makes at most one
\* asynchronous call of the storage or auth collaborator.
C5_AtMostOneCall ==
    \A t \in InFlight : t.origin \in UserHandlers => t.calls <= 1

\* C5 as amended: handleLogin, handleRegister and onRefresh make at most
\* one asynchronous call; handleDeleteUser makes up to three: its getItem,
\* its setItem and the getItem of the loadUsers it starts.
C5_CallsPerHandler ==
    \A t \in InFlight :
        /\ t.origin \in {"handleLogin", "handleRegister", "onRefresh"} => t.calls <= 1
        /\ t.origin = "handleDeleteUser" => t.calls <= 3

C5_Witness ==
    \E t \in InFlight :
        t.origin = "handleDeleteUser" /\ t.h = "loadUsers" /\ t.calls = 3

\* The storage key and the view-state variables an execution reads or
\* writes when it is resumed.
Touches(t) ==
    CASE t.h = "loadAppointments" ->
            {AppointmentsKey, "appointments"}
                \cup (IF t.origin = "onRefresh" THEN {"refreshing"} ELSE {})
      [] t.h = "loadUsers"        -> {UsersKey, "users", "loading"}
      [] t.h = "handleDeleteUser" -> {UsersKey}
      [] t.h = "handleLogin"      -> {"loginLoading", "loginError"}
      [] t.h = "handleRegister"   -> {"regLoading", "regError"}
      [] OTHER                    -> {}

\* C6: in no reachable state are two executions in progress, each suspended
\* at an await, that read or write the same storage key or the same
\* view-state variable.
C6_NoConcurrentAccess ==
    \A t1, t2 \in InFlight :
        (t1 # t2 \/ CopiesIn(t1, tasks) > 1) => Touches(t1) \cap Touches(t2) = {}

\* What the mounted screen displays as its error: LoginScreen and
\* RegisterScreen render their error state, the others have none.
ErrorShown ==
    IF screen = "Login" THEN loginError
    ELSE IF screen = "Register" THEN regError
    ELSE NoMsg

\* The step taken last was a failure of a handler or load of the mounted
\* screen: a rejected auth call, a missing field, malformed stored JSON.
FailureOnScreen ==
    \/ last.op = "handleRegister" /\ last.kind = "validation"
    \/ /\ last.t.live
       /\ \/ last.op \in {"handleLogin.signIn", "handleRegister.register"}
             /\ last.kind = "rejected"
          \/ last.op \in {"loadAppointments", "loadUsers", "handleDeleteUser.getItem"}
             /\ last.kind = "malformed"

\* C7 as stated: every failure leaves the screen displaying one static
\* message, the same for every kind of failure on that screen (for
\* RegisterScreen, the one it shows when register rejects).
C7_OneMessagePerScreen ==
    FailureOnScreen
        => /\ ErrorShown # NoMsg
           /\ screen = "Register" => ErrorShown = MsgRegisterFail

\* C7 as amended: every failure is caught inside the screen; LoginScreen
\* then displays 'Email ou senha inválidos'; RegisterScreen displays one of
\* two messages, 'Por favor, preencha todos os campos' for a missing field
\* and 'Erro ao criar conta. Tente novamente.' for a rejected register;
\* HomeScreen and UserManagementScreen display no error message.
C7_MessagePerFailure ==
    FailureOnScreen
        => ErrorShown =
             (IF last.op = "handleLogin.signIn" THEN MsgLoginFail
              ELSE IF last.op = "handleRegister" THEN MsgFillAll
              ELSE IF last.op = "handleRegister.register" THEN MsgRegisterFail
              ELSE NoMsg)

C7_Witness ==
    /\ last.op = "handleRegister.register" /\ last.kind = "rejected" /\ last.t.live
    /\ screen = "Register"
    /\ regError = MsgRegisterFail

\* The loadUsers executions in flight that a handleDeleteUser started.
Reloads(B) ==
    BagCardinality([t \in {x \in BagToSet(B) : x.h = "loadUsers" /\ x.origin = "handleDeleteUser"}
                        |-> CopiesIn(t, B)])

\* UserManagementScreen is mounted and no loadUsers is pending.
UsersLoadsFinished ==
    /\ screen = "UserManagement" /\ mounted
    /\ ~loading
    /\ \A t \in InFlight : t.h # "loadUsers"

\* C8 as stated, its last part: once all pending loads have finished, the
\* displayed list equals the stored collection with the logged-in user
\* removed.
C8_DisplayedEqualsStored ==
    UsersLoadsFinished
        => IsRemainder(users, JSONparse(store[UsersKey].text).val, SelfId)

\* C8 as amended: a load of the stored users is started on every focus of
\* UserManagementScreen and after every successful delete write, the reload
\* starting only once the setItem of that delete has completed; a load of
\* the mounted screen that reads a stored array sets the displayed list to
\* that array with the logged-in user removed, and a load that finds
\* nothing stored, malformed JSON or a storage error leaves the displayed
\* list as it was.
C8_LoadOnFocusReloadAfterWrite ==
    /\ []((last.op \in {"mount", "focus"} /\ screen = "UserManagement")
            => \E t \in InFlight :
                  t.h = "loadUsers" /\ t.pc = "getItem" /\ t.origin = "focus" /\ t.live)
    /\ []((last.op = "handleDeleteUser.setItem" /\ last.kind = "written")
            => /\ store[UsersKey] = Str(last.t.val)
               /\ \E t \in InFlight :
                     /\ t.h = "loadUsers" /\ t.pc = "getItem"
                     /\ t.origin = "handleDeleteUser" /\ t.live = last.t.live)
    /\ []((last.op = "loadUsers" /\ last.kind = "parsed" /\ last.t.live)
            => IsRemainder(users, JSONparse(store[UsersKey].text).val, SelfId))
    /\ [][/\ Reloads(tasks') > Reloads(tasks)
             => last'.op = "handleDeleteUser.setItem" /\ last'.kind = "written"
          /\ (last'.op = "loadUsers" /\ last'.kind # "parsed")
             => users' = users]_vars

C8_Witness ==
    /\ last.op = "loadUsers" /\ last.kind = "parsed" /\ last.t.live
    /\ last.t.origin = "handleDeleteUser"
    /\ users = <<DecodeObject("u3")>>
    /\ Len(JSONparse(store[UsersKey].text).val) = 2

\* C9 as stated: once its screen has been left, the completion of a pending
\* request has no further effect: no navigation, no further storage
\* access, no change of the store or of a view.
C9_LeftScreenHasNoEffect ==
    [][(last'.t.h # "none" /\ ~last'.t.live)
       => /\ tasks' = Finish(last'.t)
          /\ UNCHANGED <<screen, mounted, focused, store, viewVars>>]_vars

\* C9 as amended: there is no cancellation.  Once its screen has been left
\* the continuation of a pending request still runs: a resolved register
\* still navigates to Login, the delete still calls setItem, writes the
\* store and starts the reload; only the updates of the view state are
\* lost, a view changing just by that navigation.
C9_LeftScreenStillRuns ==
    [][/\ (last'.op = "handleRegister.register" /\ last'.kind \in {"resolved", "navigated"})
          => screen' = "Login" /\ mounted'
       /\ (last'.op = "handleDeleteUser.getItem" /\ last'.kind = "parsed")
          => \E t \in BagToSet(tasks') :
                t.pc = "setItem" /\ t.arg = last'.t.arg /\ t.live = last'.t.live
       /\ (last'.op = "handleDeleteUser.setItem" /\ last'.kind = "written")
          => /\ store'[UsersKey] = Str(last'.t.val)
             /\ Reloads(tasks') = Reloads(tasks) + 1
       /\ (last'.t.h # "none" /\ ~last'.t.live /\ last'.kind # "navigated")
          => UNCHANGED <<screen, mounted, focused, viewVars>>]_vars

C9_Witness ==
    /\ last.op = "handleRegister.register" /\ last.kind = "navigated"
    /\ ~last.t.live
    /\ screen = "Login"

\* C10: no step of a screen writes the 'appointments' key, and the only
\* write of a screen is the setItem of handleDeleteUser under
\* '@MedicalApp:users'; every other handler or load leaves the store as it
\* is.
C10_OnlyDeleteWrites ==
    [][last'.op # "external"
       => /\ store'[AppointmentsKey] = store[AppointmentsKey]
          /\ \/ store' = store
             \/ /\ last'.op = "handleDeleteUser.setItem" /\ last'.kind = "written"
                /\ store' = [store EXCEPT ![UsersKey] = Str(last'.t.val)]]_vars

C10_Witness ==
    /\ last.op = "handleDeleteUser.setItem" /\ last.kind = "written"
    /\ store[AppointmentsKey] = Null
    /\ store[UsersKey] = Str(<<"[", "u1", "]">>)


\* The handleRegister executions awaiting register.
Registers(B) ==
    BagCardinality([t \in {x \in BagToSet(B) : x.h = "handleRegister" /\ x.pc = "register"}
                        |-> CopiesIn(t, B)])

\* C11: a submission of the registration form with its three fields
\* non-empty calls register once, with the three field values, and does not
\* navigate before register settles; when register resolves the handler
\* navigates to 'Login', once, and nothing else of a handler navigates to
\* 'Login'; when register rejects the handler does not navigate and the
\* Register screen, if it is still the mounted one, displays 'Erro ao criar
\* conta. Tente novamente.'.
C11_RegisterOnceThenNavigate ==
    [][/\ (last'.op = "handleRegister" /\ name # "" /\ email # "" /\ password # "")
          => /\ tasks' = tasks (+) SetToBag({Task("handleRegister", "register", "handleRegister",
                                                  1, 0, <<name, email, password>>, TRUE)})
             /\ Registers(tasks') = Registers(tasks) + 1
             /\ UNCHANGED <<screen, mounted, focused>>
       /\ last'.op = "handleRegister.register"
          => /\ last'.t \in InFlight
             /\ last'.t.calls = 1
             /\ Registers(tasks') = Registers(tasks) - 1
             /\ BagCardinality(tasks') = BagCardinality(tasks) - 1
             /\ last'.kind = "rejected"
                  => /\ UNCHANGED <<screen, mounted, focused>>
                     /\ last'.t.live => (screen' = "Register" /\ ErrorShown' = MsgRegisterFail)
             /\ last'.kind # "rejected"
                  => screen' = "Login" /\ mounted' /\ focused'
       /\ (screen # "Login" /\ screen' = "Login" /\ last'.op # "navigate")
          => /\ last'.op = "handleRegister.register"
             /\ last'.kind = "navigated"
       /\ Registers(tasks') # Registers(tasks)
          => last'.op \in {"handleRegister", "handleRegister.register"}]_vars

C11_Witness ==
    /\ last.op = "handleRegister.register" /\ last.kind = "navigated"
    /\ last.t.live
    /\ last.t.val = <<"x", "x", "x">>
    /\ screen = "Login"
    /\ Pending = 0


\* C12: when an execution of handleLogin or handleRegister of the mounted
\* screen finishes (signIn or register resolved or rejected, or the
\* empty-field return) the loading flag of its screen is false, and when an
\* onRefresh finishes, its load failed or not, refreshing is false; if the
\* awaited promise settles, a flag that is on is eventually off.
C12_BusyIndicatorsReset ==
    /\ []((last.op = "handleLogin.signIn" /\ last.t.live) => ~loginLoading)
    /\ []((last.op = "handleRegister.register" /\ last.t.live /\ last.kind = "rejected")
            => ~regLoading)
    /\ []((last.op = "handleRegister.register" /\ last.kind # "rejected") => ~regLoading)
    /\ []((last.op = "handleRegister" /\ last.kind = "validation") => ~regLoading)
    /\ []((last.op = "loadAppointments" /\ last.t.origin = "onRefresh" /\ last.t.live)
            => ~refreshing)
    /\ (loginLoading ~> ~loginLoading)
    /\ (regLoading ~> ~regLoading)
    /\ (refreshing ~> ~refreshing)

C12_Witness ==
    /\ last.op = "loadAppointments" /\ last.kind = "rejected"
    /\ last.t.origin = "onRefresh" /\ last.t.live
    /\ ~refreshing
    /\ screen = "Home" /\ mounted


\* C13: the list UserManagementScreen displays never holds an element whose
\* id is the id of the logged-in user, whatever is stored and whichever
\* loads and deletes have run.
C13_SelfNeverDisplayed ==
    \A i \in 1..Len(users) : users[i].id # SelfId

C13_Witness ==
    /\ screen = "UserManagement" /\ mounted
    /\ last.op = "loadUsers" /\ last.kind = "parsed" /\ last.t.live
    /\ last.t.origin = "handleDeleteUser"
    /\ SelfId \in Ids(JSONparse(store[UsersKey].text).val)
    /\ users = <<DecodeObject("u2")>>


\* UserManagementScreen stays mounted over the step.
StaysOnUsers == screen = "UserManagement" /\ mounted /\ mounted'

\* C14: UserManagementScreen renders 'Carregando usuários...' from its
\* mount until the first loadUsers of that mount finishes, whether it read
\* a collection, found nothing stored or failed, and never again while it
\* stays mounted, the reload after a delete included; it renders 'Nenhum
\* usuário cadastrado' if and only if loading is false and the displayed
\* list has length zero.
C14_LoadingTextUntilFirstLoad ==
    /\ [](/\ UsersRender(loading, users) = "LoadingText" <=> loading
          /\ UsersRender(loading, users) = "EmptyText" <=> (~loading /\ Len(users) = 0)
          /\ (last.op = "mount" /\ screen = "UserManagement")
               => UsersRender(loading, users) = "LoadingText"
          /\ (last.op = "loadUsers" /\ last.t.live)
               => UsersRender(loading, users) # "LoadingText")
    /\ [][/\ (StaysOnUsers /\ loading /\ ~(last'.op = "loadUsers" /\ last'.t.live))
             => loading'
          /\ (StaysOnUsers /\ ~loading) => ~loading'
          /\ (StaysOnUsers /\ last'.op = "handleDeleteUser.setItem")
             => loading' = loading]_vars

C14_Witness ==
    /\ screen = "UserManagement" /\ mounted
    /\ last.op = "loadUsers" /\ last.kind = "parsed" /\ last.t.live
    /\ last.t.origin = "handleDeleteUser"
    /\ UsersRender(loading, users) = "EmptyText"
    /\ store[UsersKey] = Str(<<"[", "u1", "]">>)


\* The ids of the stored users collection.
StoredIds == Ids(JSONparse(store[UsersKey].text).val)

\* C15: when the setItem of a handleDeleteUser(Y) has completed and a
\* handleDeleteUser(X) of the same mounted screen, X # Y, has completed its
\* setItem as well (its reload is still in flight), the stored collection
\* holds neither X nor Y, however their reads and writes interleaved.
C15_BothIdsGoneAfterTwoDeletes ==
    (last.op = "handleDeleteUser.setItem" /\ last.kind = "written" /\ last.t.live)
        => \A t \in InFlight :
              (/\ t.h = "loadUsers" /\ t.origin = "handleDeleteUser" /\ t.live
               /\ t.arg # last.t.arg)
                  => /\ t.arg \notin StoredIds
                     /\ last.t.arg \notin StoredIds


\* The stored users collection.
StoredUsers == JSONparse(store[UsersKey].text).val

\* C16: a handleDeleteUser(X) that reads a stored collection without an
\* element of id X (as its second run in sequence does, and as a run with
\* an id that is not stored does) hands to setItem that collection itself,
\* and the write of a collection equal to the stored one leaves the stored
\* collection as it is; a handleDeleteUser that finds nothing stored under
\* '@MedicalApp:users' ends there: no setItem, no reload, the store and the
\* displayed list unchanged.
C16_DeleteIdempotentNoOpOnMissing ==
    [][/\ (/\ last'.op = "handleDeleteUser.getItem" /\ last'.kind = "parsed"
           /\ last'.t.arg \notin StoredIds)
          => \E u \in BagToSet(tasks') :
                /\ u.h = "handleDeleteUser" /\ u.pc = "setItem"
                /\ u.arg = last'.t.arg /\ u.live = last'.t.live
                /\ JSONparse(u.val).ok
                /\ JSONparse(u.val).val = StoredUsers
       /\ (/\ last'.op = "handleDeleteUser.setItem" /\ last'.kind = "written"
           /\ JSONparse(store[UsersKey].text).ok
           /\ JSONparse(last'.t.val).val = StoredUsers)
          => /\ JSONparse(store'[UsersKey].text).ok
             /\ StoredUsers' = StoredUsers
       /\ (last'.op = "handleDeleteUser.getItem" /\ last'.kind = "absent")
          => /\ ~Truthy(store[UsersKey])
             /\ store' = store
             /\ users' = users
             /\ tasks' = tasks (-) SetToBag({last'.t})
             /\ Reloads(tasks') = Reloads(tasks)]_vars

\* The second of two runs with the same id, after the write of the first.
C16_Witness ==
    /\ last.op = "handleDeleteUser.getItem" /\ last.kind = "parsed" /\ last.t.live
    /\ last.t.arg \notin StoredIds
    /\ \E t \in InFlight :
          t.h = "loadUsers" /\ t.origin = "handleDeleteUser" /\ t.arg = last.t.arg
    /\ \E u \in InFlight :
          u.pc = "setItem" /\ u.arg = last.t.arg /\ u.val = store[UsersKey].text

\* A run that finds the key absent.
C16_AbsentReached ==
    /\ last.op = "handleDeleteUser.getItem" /\ last.kind = "absent"
    /\ ~store[UsersKey].present


\* The handleLogin executions awaiting signIn.
SignIns(B) ==
    BagCardinality([t \in {x \in BagToSet(B) : x.h = "handleLogin" /\ x.pc = "signIn"}
                        |-> CopiesIn(t, B)])

\* C17: every submission of the login form, its fields empty or not, first
\* clears the error and calls signIn once with the email and the password
\* of the form; when that signIn settles the execution ends without another
\* call, and LoginScreen (still mounted) displays 'Email ou senha
\* inválidos' if and only if the signIn rejected.
C17_LoginAlwaysSignsInOnce ==
    [][/\ last'.op = "handleLogin"
          => /\ tasks' = tasks (+) SetToBag({Task("handleLogin", "signIn", "handleLogin", 1, 0,
                                                  <<loginEmail, loginPassword>>, TRUE)})
             /\ SignIns(tasks') = SignIns(tasks) + 1
             /\ loginError' = NoMsg
             /\ ErrorShown' = NoMsg
       /\ last'.op = "handleLogin.signIn"
          => /\ last'.t \in InFlight
             /\ last'.t.calls = 1
             /\ tasks' = tasks (-) SetToBag({last'.t})
             /\ last'.t.live
                  => /\ screen' = "Login"
                     /\ ErrorShown' = MsgLoginFail <=> last'.kind = "rejected"
                     /\ last'.kind # "rejected" => ErrorShown' = NoMsg
       /\ SignIns(tasks') # SignIns(tasks)
          => last'.op \in {"handleLogin", "handleLogin.signIn"}]_vars

C17_Witness ==
    /\ last.op = "handleLogin.signIn" /\ last.kind = "rejected" /\ last.t.live
    /\ last.t.val = <<"", "x">>
    /\ screen = "Login"
    /\ loginError = MsgLoginFail

====
